---- MODULE Spec2Model ----
(***************************************************************************)
(* Model of the warp-jira-agent polling orchestrator (cmd/poll.go).        *)
(*                                                                         *)
(* One orchestrator process (the Poller of pollForNewIssues with its       *)
(* searchIssues drain and handleIssue claim) is modelled step by step.     *)
(* The workspaces root is durable and shared: a second orchestrator        *)
(* process on the same root is represented by its handleIssue calls, which *)
(* may come for any key at any moment.  Every issue claimed by the modelled *)
(* process owns a unit (the runAgent goroutine) that advances on its own;  *)
(* a unit of the other process is opaque ("peer").                         *)
(***************************************************************************)
EXTENDS Integers, Sequences, FiniteSets, TLC

\* Issue keys the tracker may return.
Keys == {"A-1", "A-2"}

\* Bounds of the model.
MaxPageLen == 2      \* issues per page (pageSize is 50 in the source)
MaxPages == 2        \* pages per drain (length of the cursor chain)
MaxRepos == 2        \* configured repositories
MaxRestarts == 1     \* process deaths followed by a restart
MaxTextLen == 4      \* characters of a comment text

VARIABLES
    workspaces,     \* durable: issue keys whose directory workspaces/<key> exists
    logs,           \* durable: issue keys whose output.log has been created
    wt,             \* durable: per key, number of worktrees created (configuration order)
    tried,          \* history: per key, the repositories createWorktree was called for, in order
    gitWorktrees,   \* durable: the worktrees that "git worktree add" created
    repos,          \* len(reposConfig.Repositories), loaded at startup
    pc,             \* Poller: "waiting" | "fetching" | "handling" | "stopped"
    cancelled,      \* ctx.Done() of the Poller's context is closed
    tickPending,    \* a tick is buffered in ticker.C
    nextPageToken,  \* searchIssues: cursor of the page to fetch, 0 is ""
    result,         \* searchIssues: the page being handled
    i,              \* searchIssues: number of issues of the page already handled
    lastErr,        \* how the last searchIssues call ended: "none" | "fetch" | "handler"
    called,         \* history: issues of the page the callback was invoked on, in order
    lastClaim,      \* history: key and result of the Poller's latest claim attempt of the page
    claimCtx,       \* history: the state of ctx ("live" | "done") at that attempt, else "none"
    erred,          \* history: keys whose latest claim attempt by the Poller was an Error
    unit,           \* per key, position of its runAgent unit
    claimed,        \* history: per key, number of Claimed results
    dispatches,     \* history: per key, number of runAgent units started
    agentStarts,    \* history: per key, number of agent processes started
    prompt,         \* per key, the command its unit ran: prompt, working directory, log file
    commentText,    \* comment command: the text given to addComment
    payload,        \* comment command: the payload addComment submitted
    commentRes,     \* comment command: "none" | "posted" | "error"
    restarts        \* number of restarts so far

vars == <<workspaces, logs, wt, tried, gitWorktrees, repos, pc, cancelled, tickPending, nextPageToken,
          result, i, lastErr, called, lastClaim, claimCtx, erred, unit, claimed,
          dispatches, agentStarts, prompt, commentText, payload, commentRes, restarts>>

fsVars == <<workspaces, logs, wt, tried, gitWorktrees>>
pollVars == <<pc, cancelled, tickPending, nextPageToken, result, i, lastErr, called, lastClaim,
              claimCtx, erred>>
unitVars == <<unit, dispatches, agentStarts, prompt>>
cmtVars == <<commentText, payload, commentRes>>
\* What no step of the orchestrator changes: the loaded configuration, and the
\* state of the separate comment command.
cfgVars == <<repos, cmtVars>>

\* Comment texts: strings as sequences of characters.
Chars == {"a", " ", "\n"}
Texts == UNION {[1..n -> Chars] : n \in 0..MaxTextLen}

PageSeqs == UNION {[1..n -> Keys] : n \in 0..MaxPageLen}
NoPage == [issues |-> <<>>, next |-> 0]
NoClaim == [key |-> "", res |-> ""]
NoPrompt == [key |-> "", summary |-> <<>>, issue |-> "", dir |-> <<>>, cwd |-> <<>>, log |-> <<>>]
NoPayload == [version |-> 0, type |-> "", content |-> <<>>]

Range(seq) == {seq[n] : n \in 1..Len(seq)}

UnitStates == {"none", "spawned", "provisioning", "running", "completed",
               "logfail", "setupfail", "agentfail", "lost", "peer"}

TypeOK ==
    /\ workspaces \subseteq Keys
    /\ logs \subseteq Keys
    /\ wt \in [Keys -> 0..MaxRepos]
    /\ repos \in 0..MaxRepos
    /\ pc \in {"waiting", "fetching", "handling", "stopped"}
    /\ cancelled \in BOOLEAN
    /\ tickPending \in BOOLEAN
    /\ nextPageToken \in 0..MaxPages
    /\ result.issues \in PageSeqs
    /\ result.next \in 0..MaxPages
    /\ i \in 0..MaxPageLen
    /\ lastErr \in {"none", "fetch", "handler"}
    /\ claimCtx \in {"none", "live", "done"}
    /\ \A w \in gitWorktrees : w.key \in Keys
    /\ unit \in [Keys -> UnitStates]
    /\ restarts \in 0..MaxRestarts
    /\ erred \subseteq Keys
    /\ called \in PageSeqs
    /\ tried \in [Keys -> UNION {[1..n -> 1..MaxRepos] : n \in 0..MaxRepos}]
    /\ agentStarts \in [Keys -> 0..1]
    /\ commentText \in Texts
    /\ commentRes \in {"none", "posted", "error"}

InitOrchestrator ==
    /\ workspaces = {}
    /\ logs = {}
    /\ wt = [k \in Keys |-> 0]
    /\ tried = [k \in Keys |-> <<>>]
    /\ gitWorktrees = {}
    /\ repos \in {0, MaxRepos}
    /\ pc = "waiting"
    /\ cancelled = FALSE
    /\ tickPending = FALSE
    /\ nextPageToken = 0
    /\ result = NoPage
    /\ i = 0
    /\ lastErr = "none"
    /\ called = <<>>
    /\ lastClaim = NoClaim
    /\ claimCtx = "none"
    /\ erred = {}
    /\ unit = [k \in Keys |-> "none"]
    /\ claimed = [k \in Keys |-> 0]
    /\ dispatches = [k \in Keys |-> 0]
    /\ agentStarts = [k \in Keys |-> 0]
    /\ prompt = [k \in Keys |-> NoPrompt]
    /\ restarts = 0

\* The poll command: no comment is being posted.
Init ==
    /\ InitOrchestrator
    /\ commentText = <<>>
    /\ payload = NoPayload
    /\ commentRes = "none"

----
\* A create that also succeeds on an existing directory (os.MkdirAll).
Mkdir_MkdirAll(fs, fault, k) ==
    IF fault THEN "err" ELSE "ok"

\* os.Mkdir(workspaceDir): exclusive create.  An existing directory is
\* reported as ErrExist; otherwise the create succeeds unless the filesystem
\* fails it (fault).
Mkdir(fs, fault, k) ==
    IF k \in fs THEN "exist" ELSE IF fault THEN "err" ELSE "ok"

\* A handleIssue that reports an existing directory as an error.
ClaimResult_ExistIsError(out) ==
    IF out = "ok" THEN "Claimed" ELSE "Error"

\* handleIssue's result for the claim: nil after a create, nil after ErrExist,
\* the error otherwise.
ClaimResult(out) ==
    IF out = "ok" THEN "Claimed" ELSE IF out = "exist" THEN "AlreadyClaimed" ELSE "Error"

\* A unit started for every claim result that is not an error.
Dispatches_OnExist(res) == res \in {"Claimed", "AlreadyClaimed"}

\* handleIssue starts the unit ("go runAgent") only after a successful create.
Dispatches(res) == res = "Claimed"

\* The Poller's context handed to runAgent.
UnitCtx_Poll == "poll"

\* The context handed to runAgent: context.Background(), not the Poller's ctx.
UnitCtx == "background"

\* A handleIssue that runs runAgent as a plain call and so returns only when
\* runAgent has returned.
RunAgentCall_Inline == "call"

\* How handleIssue invokes runAgent: in a goroutine of its own ("go runAgent").
RunAgentCall == "go"

\* A unit of this process that has not returned yet.
InFlight(st) == st \in {"spawned", "provisioning", "running"}

\* handleIssue has returned to searchIssues: always so after a go statement;
\* after a plain call only once the unit it called has returned.
PollerFree ==
    RunAgentCall = "go" \/ \A k \in Keys : ~InFlight(unit[k])

\* A handleIssue that starts a unit only when no unit of the process is
\* still at work.
HandleIssueEffect_Serial(k, res, u) ==
    /\ workspaces' = IF res = "Claimed" THEN workspaces \cup {k} ELSE workspaces
    /\ claimed' = IF res = "Claimed" THEN [claimed EXCEPT ![k] = @ + 1] ELSE claimed
    /\ IF Dispatches(res) /\ \A j \in Keys : ~InFlight(unit[j])
         THEN /\ unit' = [unit EXCEPT ![k] = u]
              /\ dispatches' = [dispatches EXCEPT ![k] = @ + 1]
         ELSE UNCHANGED <<unit, dispatches>>
    /\ UNCHANGED <<logs, wt, tried, gitWorktrees, agentStarts, prompt>>

\* The effect of handleIssue(k) on the shared store and on the units; res is
\* the claim result and u the position the new unit starts in.
HandleIssueEffect(k, res, u) ==
    /\ workspaces' = IF res = "Claimed" THEN workspaces \cup {k} ELSE workspaces
    /\ claimed' = IF res = "Claimed" THEN [claimed EXCEPT ![k] = @ + 1] ELSE claimed
    /\ IF Dispatches(res)
         THEN /\ unit' = [unit EXCEPT ![k] = u]
              /\ dispatches' = [dispatches EXCEPT ![k] = @ + 1]
         ELSE UNCHANGED <<unit, dispatches>>
    /\ UNCHANGED <<logs, wt, tried, gitWorktrees, agentStarts, prompt>>

----
\* The ticker delivers a tick into its one-slot channel.
TimerFire ==
    /\ pc # "stopped"
    /\ ~tickPending
    /\ tickPending' = TRUE
    /\ UNCHANGED <<fsVars, cfgVars, pc, cancelled, nextPageToken, result, i, lastErr,
                   called, lastClaim, claimCtx, erred, unitVars, claimed, restarts>>

\* The cancellation signal: the Poller's context is cancelled.  A unit is hit
\* only if it was given the Poller's context.
Cancel ==
    /\ ~cancelled
    /\ pc # "stopped"
    /\ cancelled' = TRUE
    /\ unit' = [k \in Keys |->
                  IF UnitCtx = "poll" /\ unit[k] \in {"provisioning", "running"}
                    THEN (IF unit[k] = "running" THEN "agentfail" ELSE "setupfail")
                    ELSE unit[k]]
    /\ UNCHANGED <<fsVars, cfgVars, pc, tickPending, nextPageToken, result, i, lastErr,
                   called, lastClaim, claimCtx, erred, dispatches, agentStarts, prompt, claimed,
                   restarts>>

\* A loop that runs every drain in a goroutine of its own.
SearchIssuesCall_Go == "go"

\* How the loop of pollForNewIssues invokes searchIssues: a plain call, inside
\* the case of the select; the loop is back at the select when it has returned.
SearchIssuesCall == "call"

\* The loop is at its select and can take a tick.
AtSelect(p) ==
    p = "waiting" \/ (SearchIssuesCall = "go" /\ p \in {"fetching", "handling"})

\* select picks "case <-ticker.C": searchIssues is called and sends its first
\* request with the empty cursor.  Go's select chooses among the ready cases
\* at random, so this case can be taken while ctx.Done() is ready too.
StartTick ==
    /\ AtSelect(pc)
    /\ tickPending
    /\ tickPending' = FALSE
    /\ pc' = "fetching"
    /\ nextPageToken' = 0
    /\ lastErr' = "none"
    /\ UNCHANGED <<fsVars, cfgVars, cancelled, result, i, called, lastClaim, claimCtx, erred, unitVars,
                   claimed, restarts>>

\* select picks "case <-ctx.Done()": pollForNewIssues returns nil.
Stop ==
    /\ pc = "waiting"
    /\ cancelled
    /\ pc' = "stopped"
    /\ UNCHANGED <<fsVars, cfgVars, cancelled, tickPending, nextPageToken, result, i,
                   lastErr, called, lastClaim, claimCtx, erred, unitVars, claimed, restarts>>

\* Cursors the tracker may hand out after the page fetched with cursor t: the
\* empty cursor, or the cursor of the following page.
NextTokens(t) == {0} \cup {n \in {t + 1} : n < MaxPages}

\* A request that ignores its context.
FetchCompletes_Always(c) == TRUE

\* SearchJQL(ctx, ...) sends its request with the Poller's context: the
\* request can return a page only while that context is not done (c).
FetchCompletes(c) == ~c

\* SearchJQL returns a page: its issues and the cursor of the next page.  The
\* client aborts a request whose context is done, so a page only arrives while
\* the context is live.
FetchOk(issues, next) ==
    /\ pc = "fetching"
    /\ FetchCompletes(cancelled)
    /\ result' = [issues |-> issues, next |-> next]
    /\ i' = 0
    /\ called' = <<>>
    /\ lastClaim' = NoClaim
    /\ claimCtx' = "none"
    /\ pc' = "handling"
    /\ UNCHANGED <<fsVars, cfgVars, cancelled, tickPending, nextPageToken, lastErr,
                   erred, unitVars, claimed, restarts>>

\* searchIssues returns: the page it held is gone (nextPageToken keeps its last
\* value until the next call declares it anew).
SearchReturns ==
    /\ result' = NoPage
    /\ i' = 0
    /\ called' = <<>>
    /\ UNCHANGED nextPageToken

\* A failed page fetch that is tried again within the tick.
FetchErrorNext_Retry == "fetching"

\* Where the Poller goes when SearchJQL returns an error: searchIssues returns
\* it, pollForNewIssues logs it and waits for the next tick.
FetchErrorNext == "waiting"

\* SearchJQL fails (transport or server error, or the context is done).
FetchFail ==
    /\ pc = "fetching"
    /\ pc' = FetchErrorNext
    /\ lastErr' = "fetch"
    /\ IF FetchErrorNext = "waiting"
         THEN SearchReturns /\ lastClaim' = NoClaim /\ claimCtx' = "none"
         ELSE UNCHANGED <<result, i, called, nextPageToken, lastClaim, claimCtx>>
    /\ UNCHANGED <<fsVars, cfgVars, cancelled, tickPending, erred, unitVars, claimed, restarts>>

\* A callback error that ends pollForNewIssues.
HandlerErrorNext_Fatal == "stopped"

\* Where the Poller goes when the callback returns an error: searchIssues
\* returns it at once, pollForNewIssues logs it and waits for the next tick.
HandlerErrorNext == "waiting"

\* searchIssues calls the callback on the next issue of the page: handleIssue
\* of the Poller's own process.
HandleIssue(fault) ==
    /\ pc = "handling"
    /\ PollerFree
    /\ i < Len(result.issues)
    /\ LET k == result.issues[i + 1]
           res == ClaimResult(Mkdir(workspaces, fault, k))
       IN  /\ HandleIssueEffect(k, res, "spawned")
           /\ lastClaim' = [key |-> k, res |-> res]
           /\ claimCtx' = IF cancelled THEN "done" ELSE "live"
           /\ erred' = IF res = "Error" THEN erred \cup {k} ELSE erred \ {k}
           /\ IF res = "Error" /\ HandlerErrorNext # "handling"
                THEN /\ pc' = HandlerErrorNext
                     /\ lastErr' = "handler"
                     /\ SearchReturns
                ELSE /\ i' = i + 1
                     /\ called' = Append(called, k)
                     /\ UNCHANGED <<pc, lastErr, result, nextPageToken>>
    /\ UNCHANGED <<cfgVars, cancelled, tickPending, restarts>>

\* handleIssue run by another orchestrator process on the same workspaces root.
PeerHandleIssue(k, fault) ==
    /\ HandleIssueEffect(k, ClaimResult(Mkdir(workspaces, fault, k)), "peer")
    /\ UNCHANGED <<cfgVars, pollVars, restarts>>

\* A drain that also ends on a page that is not full.
DrainEnds_ShortPage(res) == res.next = 0 \/ Len(res.issues) < MaxPageLen

\* The drain ends when the page carries the empty cursor.
DrainEnds(res) == res.next = 0

\* A loop over the page that may be left after its first issue.
PageHandled_Early(n, page) == n = Len(page.issues) \/ n >= 1

\* The "for _, issue := range result.Issues" loop has run the callback on
\* every issue of the page (n of them).
PageHandled(n, page) == n = Len(page.issues)

\* All issues of the page are handled: break on the empty cursor and return
\* nil, else request the next page.
PageDone ==
    /\ pc = "handling"
    /\ PollerFree
    /\ PageHandled(i, result)
    /\ IF DrainEnds(result)
         THEN /\ pc' = "waiting"
              /\ lastErr' = "none"
              /\ result' = NoPage
              /\ i' = 0
              /\ called' = <<>>
              /\ nextPageToken' = 0
         ELSE /\ pc' = "fetching"
              /\ nextPageToken' = result.next
              /\ UNCHANGED <<lastErr, result, i, called>>
    /\ lastClaim' = NoClaim
    /\ claimCtx' = "none"
    /\ UNCHANGED <<fsVars, cfgVars, cancelled, tickPending, erred, unitVars, claimed, restarts>>

----
\* A runAgent that goes on without its log file.
AfterLogError_Continue == "provisioning"

\* os.Create(outputLogPath) failed: runAgent logs the error and returns.
AfterLogError == "logfail"

\* runAgent: os.Create(output.log); on an error the unit returns.
CreateLog(k, ok) ==
    /\ unit[k] = "spawned"
    /\ unit' = [unit EXCEPT ![k] = IF ok THEN "provisioning" ELSE AfterLogError]
    /\ logs' = IF ok THEN logs \cup {k} ELSE logs
    /\ UNCHANGED <<workspaces, wt, tried, gitWorktrees, cfgVars, pollVars, dispatches, agentStarts,
                   prompt, claimed, restarts>>

\* A setup that fails when no repository is configured.
SetupReturnsNil_NeedsRepo(n, r) == r > 0 /\ n = r

\* setupRepositoryWorktrees returns nil when no repository is configured or
\* when the worktree of every repository has been created (n of r).
SetupReturnsNil(n, r) == n = r

\* workspaceDir of key k: filepath.Join(workspacesDir, issue.Key).
WorkspaceDir(k) == <<"workspaces", k>>

\* reposConfig.Repositories as loaded from the configuration file: the first
\* n entries of this list; a URL is its "/"-separated segments.
Repositories ==
    << [url |-> <<"warpdotdev", "warp-server">>, branch |-> "main"],
       [url |-> <<"warpdotdev", "warp-client">>, branch |-> "develop"],
       [url |-> <<"warpdotdev", "warp-docs">>, branch |-> "main"],
       [url |-> <<"warpdotdev", "warp-infra">>, branch |-> "stable"] >>

\* repoName: parts[1] of strings.SplitN(repo.URL, "/", 2), what follows the
\* first "/".
RepoName(url) == Tail(url)

\* A branch name that does not carry the issue key.
BranchName_NoKey(k) == <<"warp/", "resolve">>

\* branchName: fmt.Sprintf("warp/%s-resolve", issueKey).
BranchName(k) == <<"warp/", k, "-resolve">>

\* A worktree checked out from whatever the repository has checked out.
WorktreeBase_Head(repo) == "HEAD"

\* The commit-ish the new branch starts from: repo.Branch.
WorktreeBase(repo) == repo.branch

\* "git worktree add -b <branchName> <worktreeDir> <repo.Branch>" run in
\* repos/<repoName>: the worktree it creates for issue k.
GitWorktreeAdd(k, repo) ==
    [key |-> k,
     repoDir |-> <<"repos">> \o RepoName(repo.url),
     dir |-> WorkspaceDir(k) \o RepoName(repo.url),
     branch |-> BranchName(k),
     base |-> WorktreeBase(repo)]

\* The repository the range loop of setupRepositoryWorktrees visits after the
\* ones in done: the next index of reposConfig.Repositories.
NextRepo(done) == Len(done) + 1

\* A setup loop that logs a failed worktree and goes on with the next one.
AfterWorktreeError_Continue(st) == st

\* The loop returns the error of the first createWorktree that fails, and
\* runAgent returns on it.
AfterWorktreeError(st) == "setupfail"

\* createWorktree for the next repository in configuration order; the first
\* failure makes setupRepositoryWorktrees, and with it runAgent, return.
CreateWorktree(k, ok) ==
    /\ unit[k] = "provisioning"
    /\ ~SetupReturnsNil(wt[k], repos)
    /\ Len(tried[k]) < repos
    /\ tried' = [tried EXCEPT ![k] = Append(@, NextRepo(@))]
    /\ IF ok
         THEN /\ wt' = [wt EXCEPT ![k] = @ + 1]
              /\ gitWorktrees' = gitWorktrees
                    \cup {GitWorktreeAdd(k, Repositories[NextRepo(tried[k])])}
              /\ UNCHANGED unit
         ELSE /\ unit' = [unit EXCEPT ![k] = AfterWorktreeError(unit[k])]
              /\ UNCHANGED <<wt, gitWorktrees>>
    /\ UNCHANGED <<workspaces, logs, cfgVars, pollVars, dispatches, agentStarts,
                   prompt, claimed, restarts>>

\* A runAgent that logs the setup error and goes on to start the agent.
AgentMayStart_NoReturn(st, setupOk) == (st = "provisioning" /\ setupOk) \/ st = "setupfail"

\* runAgent reaches cmd.Run only when the setup returned nil.
AgentMayStart(st, setupOk) == st = "provisioning" /\ setupOk

\* issue.Fields.Summary of the issue with key k.
Summary(k) == <<"summary", k>>

\* A runAgent that reads the issue the Poller is handling (cur) instead of
\* its own parameter.
UnitIssue_Shared(own, cur) == cur

\* The issue runAgent works on: its own parameter, bound when the go
\* statement was executed.
UnitIssue(own, cur) == own

\* The command runAgent builds for issue k: the prompt (key, summary, the
\* issue as JSON, the workspace directory), cmd.Dir, and the log file that
\* receives stdout and stderr.
AgentCommand(k) ==
    [key |-> k, summary |-> Summary(k), issue |-> k, dir |-> WorkspaceDir(k),
     cwd |-> WorkspaceDir(k), log |-> WorkspaceDir(k) \o <<"output.log">>]

\* cmd.Run starts the agent process.
StartAgent(k) ==
    /\ AgentMayStart(unit[k], SetupReturnsNil(wt[k], repos))
    /\ unit' = [unit EXCEPT ![k] = "running"]
    /\ agentStarts' = [agentStarts EXCEPT ![k] = @ + 1]
    /\ prompt' = [prompt EXCEPT ![k] = AgentCommand(UnitIssue(k, lastClaim.key))]
    /\ UNCHANGED <<fsVars, cfgVars, pollVars, dispatches, claimed, restarts>>

\* A runAgent that launches the agent again after a failed run.
AfterAgentError_Relaunch == "provisioning"

\* cmd.Run returned an error (launch failure or non-zero exit): runAgent logs
\* it and returns.
AfterAgentError == "agentfail"

\* The agent process exits (or could not be launched); runAgent logs and returns.
AgentExit(k, ok) ==
    /\ unit[k] = "running"
    /\ unit' = [unit EXCEPT ![k] = IF ok THEN "completed" ELSE AfterAgentError]
    /\ UNCHANGED <<fsVars, cfgVars, pollVars, dispatches, agentStarts, prompt, claimed,
                   restarts>>

\* A start that begins with an empty workspaces root.
StartupRoot_Fresh(fs) == {}

\* os.MkdirAll(workspacesDir) at the start of pollForNewIssues: creates the
\* root when missing and leaves an existing root and its entries as they are.
StartupRoot(fs) == fs

\* The orchestrator process dies and is started again: pollForNewIssues begins
\* anew with a fresh context and ticker.  Its goroutines are gone; its agent
\* child processes either die with it or live on (orphans).  The workspaces
\* root keeps everything.
Restart(orphans) ==
    /\ restarts < MaxRestarts
    /\ workspaces' = StartupRoot(workspaces)
    /\ restarts' = restarts + 1
    /\ pc' = "waiting"
    /\ cancelled' = FALSE
    /\ tickPending' = FALSE
    /\ lastErr' = "none"
    /\ lastClaim' = NoClaim
    /\ claimCtx' = "none"
    /\ erred' = {}
    /\ result' = NoPage
    /\ i' = 0
    /\ called' = <<>>
    /\ nextPageToken' = 0
    /\ unit' = [k \in Keys |->
                  IF unit[k] \in {"spawned", "provisioning"} THEN "lost"
                  ELSE IF unit[k] = "running" /\ ~orphans THEN "lost"
                  ELSE unit[k]]
    /\ UNCHANGED <<logs, wt, tried, gitWorktrees, cfgVars, dispatches, agentStarts, prompt,
                   claimed>>

Next ==
    \/ TimerFire
    \/ Cancel
    \/ StartTick
    \/ Stop
    \/ \E issues \in PageSeqs : \E next \in NextTokens(nextPageToken) : FetchOk(issues, next)
    \/ FetchFail
    \/ \E fault \in BOOLEAN : HandleIssue(fault)
    \/ \E k \in Keys : \E fault \in BOOLEAN : PeerHandleIssue(k, fault)
    \/ PageDone
    \/ \E k \in Keys : \E ok \in BOOLEAN : CreateLog(k, ok)
    \/ \E k \in Keys : \E ok \in BOOLEAN : CreateWorktree(k, ok)
    \/ \E k \in Keys : StartAgent(k)
    \/ \E k \in Keys : \E ok \in BOOLEAN : AgentExit(k, ok)
    \/ \E orphans \in BOOLEAN : Restart(orphans)

Spec == Init /\ [][Next]_vars

\* One uninterrupted run of the process with no repository configured: the
\* Go scheduler runs every goroutine that can take a step.
InitZero == Init /\ repos = 0

NextRun ==
    \/ TimerFire
    \/ Cancel
    \/ StartTick
    \/ Stop
    \/ \E issues \in PageSeqs : \E next \in NextTokens(nextPageToken) : FetchOk(issues, next)
    \/ FetchFail
    \/ \E fault \in BOOLEAN : HandleIssue(fault)
    \/ \E k \in Keys : \E fault \in BOOLEAN : PeerHandleIssue(k, fault)
    \/ PageDone
    \/ \E k \in Keys : \E ok \in BOOLEAN : CreateLog(k, ok)
    \/ \E k \in Keys : StartAgent(k)
    \/ \E k \in Keys : \E ok \in BOOLEAN : AgentExit(k, ok)

UnitFairness ==
    \A k \in Keys :
        /\ WF_vars(\E ok \in BOOLEAN : CreateLog(k, ok))
        /\ WF_vars(StartAgent(k))

ZeroRepoSpec == InitZero /\ [][NextRun]_vars /\ UnitFairness

\* One uninterrupted run against a tracker whose query result does not
\* change: a chain of MaxPages pages that ends with the empty cursor and
\* holds every key.  No cancellation arrives, and every goroutine and every
\* pending call eventually takes its step; how a call returns (a page or an
\* error, a create or a failure) is the environment's choice.
TrackerPage(t) ==
    [issues |-> IF t + 1 < MaxPages THEN <<"A-1">> ELSE <<"A-2", "A-1">>,
     next |-> IF t + 1 < MaxPages THEN t + 1 ELSE 0]

TrackedKeys == UNION {Range(TrackerPage(t).issues) : t \in 0..(MaxPages - 1)}

NextLive ==
    \/ TimerFire
    \/ StartTick
    \/ FetchOk(TrackerPage(nextPageToken).issues, TrackerPage(nextPageToken).next)
    \/ FetchFail
    \/ \E fault \in BOOLEAN : HandleIssue(fault)
    \/ \E k \in Keys : PeerHandleIssue(k, FALSE)
    \/ PageDone
    \/ \E k \in Keys : \E ok \in BOOLEAN : CreateLog(k, ok)
    \/ \E k \in Keys : \E ok \in BOOLEAN : CreateWorktree(k, ok)
    \/ \E k \in Keys : StartAgent(k)
    \/ \E k \in Keys : \E ok \in BOOLEAN : AgentExit(k, ok)

LiveFairness ==
    /\ WF_vars(TimerFire)
    /\ WF_vars(StartTick)
    /\ WF_vars(FetchOk(TrackerPage(nextPageToken).issues, TrackerPage(nextPageToken).next)
                  \/ FetchFail)
    /\ WF_vars(\E fault \in BOOLEAN : HandleIssue(fault))
    /\ WF_vars(PageDone)
    /\ \A k \in Keys :
          /\ WF_vars(\E ok \in BOOLEAN : CreateLog(k, ok))
          /\ WF_vars(\E ok \in BOOLEAN : CreateWorktree(k, ok))
          /\ WF_vars(StartAgent(k))

LiveSpec == Init /\ [][NextLive]_vars /\ LiveFairness

----
\* The comment command (a run of its own: "warp-jira-agent comment <text>").

\* A text node: {Type: "text", Text: commentText}.
TextNode(text) == [type |-> "text", text |-> text]

\* A paragraph that carries the first character in a text node of its own.
ParagraphContent_Split(text) ==
    IF Len(text) > 1 THEN <<TextNode(<<Head(text)>>), TextNode(Tail(text))>>
    ELSE <<TextNode(text)>>

\* The content of the paragraph: a single text node with the whole text.
ParagraphContent(text) == <<TextNode(text)>>

\* The payload addComment builds: Body is a version-1 "doc" node whose
\* content is a single paragraph.
CommentPayload(text) ==
    [version |-> 1, type |-> "doc",
     content |-> << [type |-> "paragraph", content |-> ParagraphContent(text)] >>]

\* addComment(ctx, client, issueKey, commentText): the payload is built and
\* handed to client.Issue.Comment.Add, which succeeds or returns an error.
AddComment(ok) ==
    /\ commentRes = "none"
    /\ payload' = CommentPayload(commentText)
    /\ commentRes' = IF ok THEN "posted" ELSE "error"
    /\ UNCHANGED <<fsVars, repos, pollVars, unitVars, claimed, restarts, commentText>>

\* args[0] of the comment command: any text.
InitComment ==
    /\ InitOrchestrator
    /\ commentText \in Texts
    /\ payload = NoPayload
    /\ commentRes = "none"

NextComment == \E ok \in BOOLEAN : AddComment(ok)

CommentSpec == InitComment /\ [][NextComment]_vars

----
\* Steps of the model as seen by the properties.

\* The Poller's handleIssue is invoked on key k and returns claim result r.
Attempt(k, r) ==
    /\ pc = "handling"
    /\ lastClaim' = [key |-> k, res |-> r]
    /\ (i' = i + 1 \/ r = "Error")

\* The step kills and restarts the process.
IsRestart == restarts' # restarts

----
\* C1: for every issue key, the claim attempts of all processes on the shared
\* workspaces root, over all ticks and restarts, give at most one Claimed; an
\* AlreadyClaimed is only given for a key that has its one Claimed, and once a
\* key has been Claimed every further attempt gives AlreadyClaimed.
C1_OneClaimed ==
    /\ [](\A k \in Keys :
            /\ claimed[k] <= 1
            /\ (claimed[k] = 1) = (k \in workspaces)
            /\ (lastClaim.key = k /\ lastClaim.res = "AlreadyClaimed" => claimed[k] = 1))
    /\ [][\A k \in Keys : \A r \in {"Claimed", "AlreadyClaimed", "Error"} :
            (claimed[k] = 1 /\ Attempt(k, r)) => r = "AlreadyClaimed"]_vars

\* C1 witness: the other process claimed the key, and the Poller, after a
\* restart, attempted it and got AlreadyClaimed.
C1_Witness ==
    \E k \in Keys :
        /\ unit[k] = "peer"
        /\ claimed[k] = 1
        /\ restarts >= 1
        /\ lastClaim = [key |-> k, res |-> "AlreadyClaimed"]

\* C2: the runAgent unit of an issue key is started at most once, only for a
\* key whose workspace directory exists, and its agent process at most once.
C2_DispatchAtMostOnce ==
    \A k \in Keys :
        /\ dispatches[k] <= 1
        /\ (dispatches[k] = 1 => k \in workspaces)
        /\ agentStarts[k] <= dispatches[k]

\* C2 witness: one page held the key twice, both occurrences were handled in
\* the same drain, the key's unit was started once.
C2_Witness ==
    \E k \in Keys :
        /\ pc = "handling"
        /\ result.issues = <<k, k>>
        /\ i = 2
        /\ dispatches[k] = 1
        /\ unit[k] \notin {"none", "peer"}

\* C3: while a page is handled the callback has been invoked on exactly the
\* first i issues of the page, once each and in their order; the next page is
\* requested only after all issues of the page, and then with the page's
\* cursor; searchIssues returns nil only after all issues of a page with the
\* empty cursor; a fully handled page with a non-empty cursor continues the
\* drain, whatever its length.
C3_DrainInPageOrder ==
    /\ [](pc = "handling" => (i <= Len(result.issues) /\ called = SubSeq(result.issues, 1, i)))
    /\ [][(pc = "handling" /\ pc' = "fetching" /\ ~IsRestart)
            => (called = result.issues /\ result.next # 0 /\ nextPageToken' = result.next)]_vars
    /\ [][(pc = "handling" /\ pc' = "waiting" /\ lastErr' = "none" /\ ~IsRestart)
            => (called = result.issues /\ result.next = 0)]_vars
    /\ [][(pc = "handling" /\ i = Len(result.issues) /\ result.next # 0 /\ ~IsRestart)
            => pc' \in {"handling", "fetching"}]_vars

\* C3 witness: the first page was not full and carried a cursor, all its
\* issues were handled, and the second page is being requested.
C3_Witness ==
    /\ pc = "fetching"
    /\ nextPageToken = 1
    /\ Len(result.issues) >= 1
    /\ Len(result.issues) < MaxPageLen
    /\ called = result.issues

\* C4: a callback error on an issue leaves the Poller in the drain, at the
\* next issue of the page.
C4_HandlerFailureKeepsDraining ==
    [][\A k \in Keys : (Attempt(k, "Error") /\ ~IsRestart) => (pc' = "handling" /\ i' = i + 1)]_vars

\* C5: a failed page fetch ends the tick at once and touches neither a
\* workspace nor a unit; the Poller holds no page while it waits, and it leaves
\* Waiting only by consuming a tick and requesting the first page with the
\* empty cursor.
C5_FetchFailureAbandonsTick ==
    /\ [][(pc = "fetching" /\ lastErr' = "fetch" /\ ~IsRestart)
            => /\ pc' = "waiting"
               /\ result' = NoPage
               /\ UNCHANGED <<workspaces, logs, wt, unit, dispatches, agentStarts, claimed>>]_vars
    /\ [](pc = "waiting" => (result = NoPage /\ i = 0 /\ called = <<>>))
    /\ [][(pc = "waiting" /\ pc' \notin {"waiting", "stopped"})
            => (tickPending /\ ~tickPending' /\ pc' = "fetching" /\ nextPageToken' = 0)]_vars

\* C5 witness: the fetch of the second page failed after the first page had
\* been handled and had claimed an issue; the Poller waits.
C5_Witness ==
    /\ pc = "waiting"
    /\ lastErr = "fetch"
    /\ nextPageToken = 1
    /\ \E k \in Keys : unit[k] = "spawned"

C7_SetupFailureIsPermanent ==
    /\ [](\A k \in Keys : unit[k] = "setupfail" =>
            /\ k \in workspaces
            /\ claimed[k] = 1
            /\ dispatches[k] = 1
            /\ agentStarts[k] = 0
            /\ wt[k] < repos)
    /\ [][\A k \in Keys : unit[k] = "setupfail" =>
            /\ unit'[k] = "setupfail"
            /\ wt'[k] = wt[k]
            /\ k \in workspaces'
            /\ dispatches'[k] = 1
            /\ \A r \in {"Claimed", "AlreadyClaimed", "Error"} :
                  Attempt(k, r) => r = "AlreadyClaimed"]_vars

\* C7 witness: the setup of a claimed issue failed and a later attempt on the
\* key gave AlreadyClaimed.
C7_Witness ==
    \E k \in Keys :
        /\ unit[k] = "setupfail"
        /\ lastClaim = [key |-> k, res |-> "AlreadyClaimed"]

\* C8: a claim error records no claim and starts no unit; a key whose latest
\* attempt was an error is attempted again by any tick that returns it (the
\* Poller does not leave a page holding the key before the attempt), and an
\* attempt that succeeds claims the key and starts its unit.
C8_ErroredIssueRetried ==
    /\ [][\A k \in Keys : Attempt(k, "Error")
            => (k \notin workspaces' /\ UNCHANGED <<workspaces, unit, dispatches, claimed>>)]_vars
    /\ [][\A k \in Keys : Attempt(k, "Claimed")
            => (k \in workspaces' /\ unit'[k] = "spawned")]_vars
    /\ [][\A k \in erred :
            (/\ pc = "handling"
             /\ k \in Range(result.issues)
             /\ k \notin Range(called)
             /\ pc' # "handling"
             /\ ~IsRestart) => lastClaim'.key = k]_vars

\* C9: after the cancellation no tick begins, and Stopped is terminal.
C9_NoTickAfterCancel ==
    /\ [][cancelled => ~(pc = "waiting" /\ pc' = "fetching")]_vars
    /\ [][(pc = "stopped" /\ ~IsRestart) => pc' = "stopped"]_vars

C11_PollerNeverWaits ==
    /\ [][\A k \in Keys : Attempt(k, "Claimed") =>
            /\ pc' = "handling"
            /\ i' = i + 1
            /\ unit'[k] = "spawned"
            /\ UNCHANGED <<logs, wt, agentStarts>>]_vars
    /\ []((pc = "handling" /\ i < Len(result.issues)) => ENABLED HandleIssue(FALSE))
    /\ []((pc = "handling" /\ i = Len(result.issues)) => ENABLED PageDone)
    /\ []((pc = "waiting" /\ tickPending) => ENABLED StartTick)

\* C11 witness: while the agent of one key is running, the Poller has claimed
\* the next issue of the drain.
C11_Witness ==
    \E k \in Keys :
        /\ unit[k] = "running"
        /\ pc = "handling"
        /\ lastClaim.key # k
        /\ lastClaim.res = "Claimed"

\* C12: a restart loses what the process held in memory (the Poller's drain
\* and its goroutines) and keeps the workspaces root; a key whose workspace
\* directory exists is never claimed or dispatched again, by any step before
\* or after a restart: every attempt on it gives AlreadyClaimed, and a unit
\* lost in the crash is never started again.
C12_RestartKeepsClaims ==
    /\ [][IsRestart =>
            /\ workspaces' = workspaces
            /\ pc' = "waiting" /\ result' = NoPage /\ lastClaim' = NoClaim
            /\ \A k \in Keys : unit[k] \in {"spawned", "provisioning"} => unit'[k] = "lost"]_vars
    /\ [][\A k \in workspaces :
            /\ k \in workspaces'
            /\ claimed'[k] = claimed[k]
            /\ dispatches'[k] = dispatches[k]
            /\ \A r \in {"Claimed", "AlreadyClaimed", "Error"} :
                  Attempt(k, r) => r = "AlreadyClaimed"]_vars
    /\ [][\A k \in Keys : unit[k] = "lost" =>
            (unit'[k] = "lost" /\ agentStarts'[k] = agentStarts[k])]_vars

\* C12 witness: the process died between the claim of a key and the start of
\* its agent, and the restarted Poller attempted the key and got
\* AlreadyClaimed.
C12_Witness ==
    \E k \in Keys :
        /\ restarts >= 1
        /\ unit[k] = "lost"
        /\ agentStarts[k] = 0
        /\ lastClaim = [key |-> k, res |-> "AlreadyClaimed"]

\* C13: the Poller becomes Stopped only from Waiting with the cancellation
\* signalled; a query failure or a claim error puts it back in Waiting; a
\* failure inside a unit (log, provisioning, agent) does not touch the Poller;
\* and in Waiting a delivered tick can always be taken, and the ticker can
\* always deliver the next one.
C13_ErrorsNeverStopPolling ==
    /\ [][(pc # "stopped" /\ pc' = "stopped") => (cancelled /\ pc = "waiting")]_vars
    /\ [][(pc \in {"fetching", "handling"} /\ lastErr' \in {"fetch", "handler"})
            => pc' = "waiting"]_vars
    /\ [][(\E k \in Keys : /\ unit'[k] # unit[k]
                            /\ unit'[k] \in {"logfail", "setupfail", "agentfail"})
            => UNCHANGED pollVars]_vars
    /\ []((pc = "waiting" /\ tickPending) => ENABLED StartTick)
    /\ []((pc # "stopped" /\ ~tickPending) => ENABLED TimerFire)

\* C13 witness: after a claim error and the failure of a unit, with no
\* cancellation, a later tick has begun.
C13_Witness ==
    /\ pc = "fetching"
    /\ ~cancelled
    /\ erred # {}
    /\ \E k \in Keys : unit[k] \in {"logfail", "setupfail", "agentfail"}

\* C14: the command of every started agent is built from its own issue only:
\* the prompt of the unit for key k names k, k's summary, k as the issue data
\* and k's workspace directory; the process runs in k's workspace directory
\* and writes to the output.log inside it; no field carries the key, summary
\* or workspace of another key.
C14_AgentBuiltFromOwnIssue ==
    \A k \in Keys : agentStarts[k] >= 1 =>
        /\ prompt[k].key = k
        /\ prompt[k].summary = <<"summary", k>>
        /\ prompt[k].issue = k
        /\ prompt[k].dir = <<"workspaces", k>>
        /\ prompt[k].cwd = <<"workspaces", k>>
        /\ prompt[k].log = <<"workspaces", k, "output.log">>
        /\ \A j \in Keys \ {k} :
              /\ prompt[k].key # j
              /\ prompt[k].summary # <<"summary", j>>
              /\ prompt[k].issue # j
              /\ <<"workspaces", j>> \notin {prompt[k].dir, prompt[k].cwd}
              /\ prompt[k].log # <<"workspaces", j, "output.log">>

\* C14 witness: two different keys of one page were claimed in the same
\* drain and the agents of both are running.
C14_Witness ==
    \E k1 \in Keys : \E k2 \in Keys \ {k1} :
        /\ pc = "handling"
        /\ called = <<k1, k2>>
        /\ unit[k1] = "running"
        /\ unit[k2] = "running"
        /\ agentStarts[k1] = 1
        /\ agentStarts[k2] = 1

\* The text content of a sequence of document nodes, read in document order:
\* the text of a text node, the flattened content of any other node.
RECURSIVE FlattenNodes(_)
FlattenNodes(nodes) ==
    IF nodes = <<>> THEN <<>>
    ELSE LET n == Head(nodes)
         IN  (IF n.type = "text" THEN n.text ELSE FlattenNodes(n.content))
                \o FlattenNodes(Tail(nodes))

\* C15: for every comment text, the payload addComment hands over is a
\* version-1 "doc" node with exactly one child, a "paragraph" with exactly one
\* child, a "text" node; and the flattened text of the payload is exactly
\* the input text.
C15_CommentRoundTrip ==
    commentRes # "none" =>
        /\ payload.type = "doc"
        /\ payload.version = 1
        /\ Len(payload.content) = 1
        /\ payload.content[1].type = "paragraph"
        /\ Len(payload.content[1].content) = 1
        /\ payload.content[1].content[1].type = "text"
        /\ payload.content[1].content[1].text = commentText
        /\ FlattenNodes(<<payload>>) = commentText

\* C15 witness: a comment of full length with a space and a line break in it
\* was posted.
C15_Witness ==
    /\ commentRes = "posted"
    /\ Len(commentText) = MaxTextLen
    /\ {" ", "\n"} \subseteq Range(commentText)

\* C16: a page is requested with a cursor only when the callback has been
\* called on every issue of the page before it; the Poller goes from handling
\* to fetching only with all issues of the page handled; and while issues of
\* the page remain, no step requests or delivers another page.
C16_NextPageAfterHandlers ==
    /\ []((pc = "fetching" /\ nextPageToken # 0)
            => (i = Len(result.issues) /\ called = result.issues))
    /\ [][(pc = "handling" /\ pc' = "fetching" /\ ~IsRestart)
            => (i = Len(result.issues) /\ called = result.issues)]_vars
    /\ [][(pc = "handling" /\ i < Len(result.issues) /\ ~IsRestart)
            => (pc' # "fetching" /\ (result' = result \/ pc' = "waiting"))]_vars

\* C16 witness: the second page is being requested after both issues of a
\* full first page were handled.
C16_Witness ==
    /\ pc = "fetching"
    /\ nextPageToken = 1
    /\ Len(result.issues) = MaxPageLen
    /\ called = result.issues

\* C17 as stated: a page fetch in flight when the cancellation is signalled
\* can still complete normally.
C17_FetchFinishesAfterCancel ==
    (pc = "fetching" /\ cancelled)
        => ENABLED (\E issues \in PageSeqs : \E next \in NextTokens(nextPageToken) :
                        FetchOk(issues, next))

\* C17: the page fetch is made with the Poller's context.  With the
\* cancellation signalled, a fetch in flight delivers no page; it ends as a
\* query failure that abandons the tick: the Poller is back in Waiting, and
\* the workspaces, their contents and the units are as they were.
C17_CancelAbortsFetch ==
    /\ []((pc = "fetching" /\ cancelled) =>
            /\ ENABLED FetchFail
            /\ ~ENABLED (\E issues \in PageSeqs : \E next \in NextTokens(nextPageToken) :
                            FetchOk(issues, next)))
    /\ [][(pc = "fetching" /\ cancelled /\ pc' # "fetching" /\ ~IsRestart) =>
            /\ pc' = "waiting"
            /\ lastErr' = "fetch"
            /\ result' = NoPage
            /\ UNCHANGED <<workspaces, logs, wt, unit, dispatches, agentStarts, claimed>>]_vars

\* C17 witness: during a drain that had claimed an issue and asked for the
\* second page, the cancellation was signalled and the fetch ended as a
\* query failure.
C17_Witness ==
    /\ pc = "waiting"
    /\ cancelled
    /\ lastErr = "fetch"
    /\ nextPageToken = 1
    /\ \E k \in Keys : unit[k] \notin {"none", "peer"}

\* C18: when the agent process of a key has been started, the key's workspace
\* directory exists, its output.log has been created and all configured
\* repositories have their worktree; a unit moves only along claim, log,
\* provisioning, agent start, agent exit; worktrees are added only while the
\* unit is provisioning, before the agent starts.
C18_AgentStartsOnCompleteWorkspace ==
    /\ [](\A k \in Keys : agentStarts[k] >= 1 =>
            /\ k \in workspaces
            /\ k \in logs
            /\ wt[k] = repos
            /\ claimed[k] = 1
            /\ unit[k] \in {"running", "completed", "agentfail", "lost"})
    /\ [][\A k \in Keys : (unit'[k] # unit[k] /\ ~IsRestart) =>
            /\ <<unit[k], unit'[k]>> \in
                  {<<"none", "spawned">>, <<"none", "peer">>,
                   <<"spawned", "provisioning">>, <<"spawned", "logfail">>,
                   <<"provisioning", "setupfail">>, <<"provisioning", "running">>,
                   <<"running", "completed">>, <<"running", "agentfail">>}
            /\ (unit'[k] = "spawned" => (k \notin workspaces /\ k \in workspaces'))
            /\ (unit'[k] = "provisioning" => (k \in logs' /\ wt[k] = 0))
            /\ (unit'[k] = "running" => (agentStarts[k] = 0 /\ agentStarts'[k] = 1))]_vars
    /\ [][\A k \in Keys : wt'[k] # wt[k] =>
            (unit[k] = "provisioning" /\ agentStarts'[k] = 0 /\ k \in logs)]_vars

\* C18 witness: with repositories configured, the agent of a key was started
\* and has exited.
C18_Witness ==
    \E k \in Keys :
        /\ unit[k] = "completed"
        /\ repos >= 2
        /\ wt[k] = repos
        /\ k \in logs

\* C19: createWorktree is called for the repositories of the configuration
\* in their order, one per step; a call that fails is the last one for the
\* issue: the unit has returned, no later repository is tried, and the
\* worktrees created before, the log and the workspace directory stay.
\* Nothing is ever removed from a workspace.
C19_FirstWorktreeFailureStops ==
    /\ [](\A k \in Keys :
            /\ \A n \in 1..Len(tried[k]) : tried[k][n] = n
            /\ Len(tried[k]) <= repos
            /\ wt[k] <= Len(tried[k])
            /\ Len(tried[k]) <= wt[k] + 1
            /\ (Len(tried[k]) > wt[k] => unit[k] = "setupfail"))
    /\ [][\A k \in Keys :
            /\ Len(tried'[k]) <= Len(tried[k]) + 1
            /\ wt'[k] >= wt[k]
            /\ (k \in workspaces => k \in workspaces')
            /\ (k \in logs => k \in logs')
            /\ (Len(tried[k]) > wt[k] => (tried'[k] = tried[k] /\ wt'[k] = wt[k]))]_vars

\* C19 witness: for one key the worktree of the first repository failed and
\* the second was never tried; for another key the first worktree was created
\* and is still there after the second failed.
C19_Witness ==
    \E k1 \in Keys : \E k2 \in Keys :
        /\ repos >= 2
        /\ unit[k1] = "setupfail" /\ tried[k1] = <<1>> /\ wt[k1] = 0
        /\ unit[k2] = "setupfail" /\ tried[k2] = <<1, 2>> /\ wt[k2] = 1
        /\ {k1, k2} \subseteq workspaces \cap logs

\* C20: a handleIssue call on a key whose workspace directory exists gives
\* AlreadyClaimed, never an error; it changes nothing in the workspaces,
\* worktrees and logs, starts no unit and no agent, records no error, and the
\* Poller stays in the drain, moved on to the next issue of the page.
C20_ExistingWorkspaceIsSkipped ==
    /\ [][\A k \in Keys : \A r \in {"Claimed", "Error"} :
            k \in workspaces => ~Attempt(k, r)]_vars
    /\ [][\A k \in Keys : Attempt(k, "AlreadyClaimed") =>
            /\ k \in workspaces
            /\ UNCHANGED <<workspaces, logs, wt, tried, unit, dispatches, agentStarts, prompt,
                           claimed>>
            /\ pc' = "handling"
            /\ i' = i + 1
            /\ result' = result
            /\ lastErr' = lastErr
            /\ k \notin erred']_vars

\* C20 witness: the Poller skipped a key whose workspace holds a log and a
\* worktree, and another issue of the page is still to be handled.
C20_Witness ==
    \E k \in Keys :
        /\ pc = "handling"
        /\ lastClaim = [key |-> k, res |-> "AlreadyClaimed"]
        /\ k \in logs
        /\ wt[k] >= 1
        /\ i < Len(result.issues)

\* C21: the run of an agent ends the unit, as completed or as failed; a unit
\* whose agent failed never moves again and its agent is never started a
\* second time; its claim, workspace, worktrees and log stay as they are, and
\* every later attempt on the key gives AlreadyClaimed.
C21_AgentFailureIsFinal ==
    /\ [](\A k \in Keys : agentStarts[k] <= 1)
    /\ [][\A k \in Keys : (unit[k] = "running" /\ unit'[k] # "running" /\ ~IsRestart)
            => unit'[k] \in {"completed", "agentfail"}]_vars
    /\ [][\A k \in Keys : unit[k] = "agentfail" =>
            /\ unit'[k] = "agentfail"
            /\ agentStarts'[k] = agentStarts[k]
            /\ dispatches'[k] = dispatches[k]
            /\ claimed'[k] = claimed[k]
            /\ k \in workspaces' /\ k \in logs'
            /\ wt'[k] = wt[k]
            /\ {w \in gitWorktrees' : w.key = k} = {w \in gitWorktrees : w.key = k}
            /\ \A r \in {"Claimed", "Error"} : ~Attempt(k, r)]_vars

\* C21 witness: the agent of a key with a worktree failed, and a later tick
\* attempted the key and got AlreadyClaimed.
C21_Witness ==
    \E k \in Keys :
        /\ unit[k] = "agentfail"
        /\ wt[k] >= 1
        /\ agentStarts[k] = 1
        /\ lastClaim = [key |-> k, res |-> "AlreadyClaimed"]

\* C22: every claim of the Poller starts the unit of the key in the same
\* step, whatever the other units are doing; and a unit that has been started
\* can always take its next step towards the agent: no unit waits for
\* another.
C22_DispatchIsUnbounded ==
    /\ [][\A k \in Keys : Attempt(k, "Claimed")
            => (unit'[k] = "spawned" /\ dispatches'[k] = dispatches[k] + 1)]_vars
    /\ [](\A k \in Keys :
            /\ unit[k] = "spawned" => ENABLED CreateLog(k, TRUE)
            /\ unit[k] = "provisioning" => ENABLED (CreateWorktree(k, TRUE) \/ StartAgent(k)))

\* C22 witness: all keys were claimed from one page of one drain and the
\* agents of all of them run at the same time.
C22_Witness ==
    /\ pc = "handling"
    /\ Range(called) = Keys
    /\ Len(called) = Cardinality(Keys)
    /\ \A k \in Keys : unit[k] = "running"

\* C23: the workspace directories of two keys are different and neither lies
\* inside the other; every worktree lies inside the workspace of its own key;
\* worktrees of two keys have different directories and, in the same
\* repository, different branches; the log file of a started agent lies in
\* its own workspace; and a step that creates a worktree or a log is a step
\* of the unit of that key and of no other.
C23_UnitsOwnDisjointFiles ==
    /\ [](\A k1 \in Keys : \A k2 \in Keys \ {k1} :
            /\ WorkspaceDir(k1) # SubSeq(WorkspaceDir(k2), 1, Len(WorkspaceDir(k1)))
            /\ agentStarts[k1] >= 1 => SubSeq(prompt[k1].log, 1, 2) # WorkspaceDir(k2))
    /\ [](\A w1 \in gitWorktrees :
            /\ SubSeq(w1.dir, 1, 2) = <<"workspaces", w1.key>>
            /\ \A w2 \in gitWorktrees : w1.key # w2.key =>
                  /\ w1.dir # w2.dir
                  /\ SubSeq(w1.dir, 1, 2) # SubSeq(w2.dir, 1, 2)
                  /\ (w1.repoDir = w2.repoDir => w1.branch # w2.branch))
    /\ [][/\ \A w \in gitWorktrees' \ gitWorktrees :
                /\ unit[w.key] = "provisioning"
                /\ \A j \in Keys \ {w.key} : tried'[j] = tried[j] /\ unit'[j] = unit[j]
           /\ \A k \in logs' \ logs :
                /\ unit[k] = "spawned"
                /\ \A j \in Keys \ {k} : unit'[j] = unit[j]]_vars

\* C23 witness: two keys have each a worktree of every configured repository.
C23_Witness ==
    \E k1 \in Keys : \E k2 \in Keys \ {k1} :
        /\ repos >= 2
        /\ wt[k1] = repos
        /\ wt[k2] = repos
        /\ Cardinality(gitWorktrees) = 2 * repos

\* C24 as stated: every worktree is rooted at <workspace>/<repo-name>, on the
\* branch agent/<K>-resolve created from the configured source branch.
C24_BranchNamedAgent ==
    \A w \in gitWorktrees :
        \E r \in 1..repos :
            /\ w.dir = <<"workspaces", w.key, Repositories[r].url[2]>>
            /\ w.branch = <<"agent/", w.key, "-resolve">>
            /\ w.base = Repositories[r].branch

\* C24: the worktrees of a key are exactly one per repository provisioned so
\* far; the worktree of repository r is rooted at <workspace>/<repo-name> and
\* on the branch warp/<K>-resolve created from the source branch configured
\* for r.
C24_BranchNamedWarp ==
    /\ \A w \in gitWorktrees :
          \E r \in 1..wt[w.key] :
              /\ w.dir = <<"workspaces", w.key, Repositories[r].url[2]>>
              /\ w.repoDir = <<"repos", Repositories[r].url[2]>>
              /\ w.branch = <<"warp/", w.key, "-resolve">>
              /\ w.base = Repositories[r].branch
    /\ \A k \in Keys : \A r \in 1..wt[k] :
          \E w \in gitWorktrees :
              /\ w.key = k
              /\ w.dir = <<"workspaces", k, Repositories[r].url[2]>>

\* C24 witness: the worktree of the second configured repository, whose
\* source branch is not the first one's, has been created for a key.
C24_Witness ==
    \E w \in gitWorktrees :
        /\ w.base = Repositories[2].branch
        /\ w.base # Repositories[1].branch
        /\ wt[w.key] >= 2

\* C25: a tick is taken only by a Poller in Waiting; while a drain is in
\* progress no tick can be taken, a tick that fires stays pending, and the
\* cursor of the drain is moved only by the drain itself, after the last
\* issue of a page.
C25_OneDrainAtATime ==
    /\ [](pc \in {"fetching", "handling"} => ~ENABLED StartTick)
    /\ [][(tickPending /\ ~tickPending' /\ ~IsRestart)
            => (pc = "waiting" /\ pc' = "fetching")]_vars
    /\ [][(pc \in {"fetching", "handling"} /\ ~IsRestart /\ nextPageToken' # nextPageToken)
            => (pc = "handling" /\ i = Len(result.issues))]_vars
    /\ [][(pc \in {"fetching", "handling"} /\ tickPending /\ ~IsRestart) => tickPending']_vars

\* C25 witness: a tick has fired while the drain handles its second page.
C25_Witness ==
    /\ pc = "handling"
    /\ tickPending
    /\ nextPageToken = 1
    /\ i >= 1

\* C26 as stated: with the cancellation signalled, the Poller starts no unit.
C26_NoDispatchAfterCancel ==
    [][cancelled => \A k \in Keys : (unit'[k] = "spawned" => unit[k] = "spawned")]_vars

\* C26: with the cancellation signalled no page is delivered to the Poller
\* any more; a workspace or unit it still creates is that of the next issue
\* of the page it was handling when the signal came; and once it has left
\* that page it handles no issue again.
C26_AfterCancelOnlyPageInHand ==
    /\ [][(cancelled /\ ~IsRestart) => (result' = result \/ result' = NoPage)]_vars
    /\ [][\A k \in Keys : (cancelled /\ unit'[k] = "spawned" /\ unit[k] # "spawned") =>
            /\ pc = "handling"
            /\ i < Len(result.issues)
            /\ result.issues[i + 1] = k
            /\ result' = result
            /\ i' = i + 1]_vars
    /\ [][(cancelled /\ pc # "handling" /\ ~IsRestart) => pc' # "handling"]_vars
    /\ [](claimCtx = "done" => cancelled)

\* C26 witness: handleIssue ran with the context already cancelled, claimed
\* the key and started its unit.
C26_Witness ==
    /\ cancelled
    /\ claimCtx = "done"
    /\ lastClaim.res = "Claimed"
    /\ unit[lastClaim.key] \in {"spawned", "provisioning", "running"}

\* A page fetch returns an error, or a claim attempt fails.
FaultStep ==
    \/ pc = "fetching" /\ lastErr' = "fetch"
    \/ \E k \in Keys : Attempt(k, "Error")

\* C27: in a run without cancellation in which every goroutine keeps taking
\* its steps, if from some point on no page fetch and no claim attempt fails,
\* then every key of the query result eventually has its workspace, and every
\* unit the Poller started eventually starts its agent unless the creation
\* of its log or of a worktree failed.
C27_EveryIssueEventuallyClaimed ==
    (<>[][~FaultStep]_vars) =>
        /\ \A k \in TrackedKeys : <>(k \in workspaces)
        /\ \A k \in Keys :
              (unit[k] = "spawned") ~> (agentStarts[k] >= 1 \/ unit[k] \in {"logfail", "setupfail"})

\* C27 witness: the drain has reached the last page and claimed its key
\* while the agent of the key of the first page is running.
C27_Witness ==
    /\ pc = "handling"
    /\ nextPageToken = MaxPages - 1
    /\ lastClaim = [key |-> "A-2", res |-> "Claimed"]
    /\ "A-1" \in workspaces
    /\ unit["A-1"] = "running"


====
